---- MODULE Spec2Model ----
(***************************************************************************)
(* TradeWise-AI: the alert monitoring engine (AlertMonitorService), the    *)
(* TradeAlert store it reads and writes, and the user-facing alert         *)
(* controller (createAlert / updateAlert / deleteAlert).                   *)
(*                                                                         *)
(* Time is counted in units of priceUpdateInterval (60000 ms).  Each       *)
(* action is one run of JavaScript between two points where the event      *)
(* loop can take another task: an HTTP handler, or the continuation of an  *)
(* awaited I/O call (a store read or write, an upstream price request, a   *)
(* mail transport call, a timer).                                          *)
(***************************************************************************)
EXTENDS Integers, Sequences, FiniteSets, TLC

\* ---------------------------------------------------------------- bounds
MaxAlerts == 2
MaxLoops == 2
MaxTime == 2
MaxPrice == 2
MaxCount == 2
\* the rate limiter: its max option, its window option in ms, the step of its
\* clock in ms and the number of steps
max == 2
windowMs == 1500
TickMs == 500
MaxTicks == 4

\* ------------------------------------------------------ program constants
\* this.priceUpdateInterval = 60000 ms: one unit of model time
priceUpdateInterval == 1
\* Date.now() - cachedPrice.timestamp < 60000: the cache TTL, in the same unit
CacheTtl == 1
\* triggeredAt has no default in the schema: 0 stands for "absent"
Absent == 0

AlertIds == 1..MaxAlerts
Loops == 1..MaxLoops
Prices == 1..MaxPrice
Users == {"u1", "u2"}
Channels == {"email", "telegram", "sms"}
Statuses == {"active", "triggered", "cancelled"}
TriggerTypes == {"price_above", "price_below", "percentage_change", "volume_spike"}
AssetTypes == {"crypto", "stock", "forex", "commodity"}
Symbols == {"bitcoin", "ethereum"}

\* What an upstream answer can put where the price is read (response.data
\* [symbol].usd, response.data.price) besides a number: nothing (the field is
\* missing: undefined) or JSON null.  Both are below every number of the model.
Undefined == 0 - 1
Null == 0 - 2
Answers == Prices \cup {Undefined, Null}

Min(a, b) == IF a < b THEN a ELSE b
Abs(x) == IF x < 0 THEN 0 - x ELSE x
Bump(n) == Min(n + 1, MaxCount)

VARIABLES
    store,      \* the TradeAlert collection: alert id -> document, or NoAlert
    nextId,     \* the next _id the collection hands out (ids are never reused)
    isRunning,  \* AlertMonitorService.isRunning
    loops,      \* the monitorLoop() invocations: slot -> its position and locals
    priceCache, \* AlertMonitorService.priceCache: <<assetType, symbol>> -> entry
    now,        \* Date.now()
    sends,      \* history: alert id -> channel -> number of send attempts made
    stamped,    \* history: alert id -> number of persisted writes of triggeredAt
    calls,      \* history: the startMonitoring() calls made before the first
                \* stopMonitoring(), and whether stopMonitoring() was ever called
    limiter,    \* one createRateLimiter() instance: its hits map, the clock it
                \* reads, its last response, and the history of requests passed on
    emotion     \* one analyzeEmotion() call: its position, its text and its result

vars ==
    <<store, nextId, isRunning, loops, priceCache, now, sends, stamped, calls,
      limiter, emotion>>

\* The variables of the alert monitor and its store.
monitorVars ==
    <<store, nextId, isRunning, loops, priceCache, now, sends, stamped, calls>>

\* ------------------------------------------------------------- documents
NoAlert == [status |-> "none"]
NoUser == [found |-> FALSE]
NoEntry == [timestamp |-> Absent]
NoTries == [ch \in Channels |-> 0]

\* The users collection: each user's alertPreferences.
UserTable ==
    [u \in Users |->
        IF u = "u1"
        THEN [found |-> TRUE, email |-> TRUE, telegram |-> TRUE, sms |-> TRUE]
        ELSE [found |-> TRUE, email |-> FALSE, telegram |-> FALSE, sms |-> TRUE]]

\* A document of the tradeAlertSchema with the schema's defaults applied.
NewAlert(id, body) ==
    [id |-> id,
     user |-> body.user,
     symbol |-> body.symbol,
     assetType |-> body.assetType,
     triggerType |-> body.triggerType,
     triggerValue |-> body.triggerValue,
     currentPrice |-> body.currentPrice,
     status |-> "active",
     channels |-> body.channels,
     lastChecked |-> now,
     triggeredAt |-> Absent]

Exists(a) == store[a].status # "none"

\* One monitorLoop() invocation that is not running.
DeadLoop ==
    [pc |-> "dead", doc |-> NoAlert, rest |-> <<>>, price |-> 0, usr |-> NoUser,
     wakeAt |-> 0, askedAt |-> 0, caught |-> FALSE, mailErr |-> FALSE,
     tried |-> NoTries, wrote |-> {}]

Live == {l \in Loops : loops[l].pc # "dead"}

\* ------------------------------------------------------ TriggerEvaluator
\* JavaScript's ToNumber on the values above: undefined is NaN, null is 0.
IsNumber(x) == x >= 0
IsNaN(x) == x = Undefined
ToNumber(x) == IF x = Null THEN 0 ELSE x

\* x > y and x < y for a y that is a number: false when x is NaN
Greater(x, y) == ~IsNaN(x) /\ ToNumber(x) > y
Less(x, y) == ~IsNaN(x) /\ ToNumber(x) < y

\* the percentage taken of the new price instead of the stored one
PercentageOfNew(cp, p, v) ==
    IF IsNaN(p) \/ ToNumber(p) = 0 THEN FALSE
    ELSE Abs(ToNumber(p) - cp) * 100 >= v * ToNumber(p)

\* the percentage with a guard against a stored price of 0
PercentageGuarded(cp, p, v) ==
    IF IsNaN(p) \/ cp = 0 THEN FALSE
    ELSE Abs(ToNumber(p) - cp) * 100 >= v * cp

\* ((p - cp) / cp) * 100 in IEEE arithmetic: cp = 0 gives +-Infinity for
\* p # 0 (Math.abs(Infinity) >= v is true) and NaN for p = 0 (false); a NaN
\* p gives NaN (false).
PercentageFires(cp, p, v) ==
    IF IsNaN(p) THEN FALSE
    ELSE IF cp = 0 THEN ToNumber(p) # 0
    ELSE Abs(ToNumber(p) - cp) * 100 >= v * cp

\* the two thresholds compared with >= and <=
shouldTriggerInclusive(alert, currentPrice) ==
    CASE alert.triggerType = "price_above" ->
            ~IsNaN(currentPrice) /\ ToNumber(currentPrice) >= alert.triggerValue
      [] alert.triggerType = "price_below" ->
            ~IsNaN(currentPrice) /\ ToNumber(currentPrice) <= alert.triggerValue
      [] alert.triggerType = "percentage_change" ->
            PercentageFires(alert.currentPrice, currentPrice, alert.triggerValue)
      [] OTHER -> FALSE

\* volume_spike detected as a price above the trigger value
shouldTriggerVolume(alert, currentPrice) ==
    CASE alert.triggerType = "price_below" -> Less(currentPrice, alert.triggerValue)
      [] alert.triggerType = "percentage_change" ->
            PercentageFires(alert.currentPrice, currentPrice, alert.triggerValue)
      [] alert.triggerType \in {"price_above", "volume_spike"} ->
            Greater(currentPrice, alert.triggerValue)
      [] OTHER -> FALSE

shouldTriggerAlert(alert, currentPrice) ==
    CASE alert.triggerType = "price_above" -> Greater(currentPrice, alert.triggerValue)
      [] alert.triggerType = "price_below" -> Less(currentPrice, alert.triggerValue)
      [] alert.triggerType = "percentage_change" ->
            PercentageFires(alert.currentPrice, currentPrice, alert.triggerValue)
      [] alert.triggerType = "volume_spike" -> FALSE
      [] OTHER -> FALSE

\* ------------------------------------------------------------ PriceOracle
CacheKey(alert) == <<alert.assetType, alert.symbol>>
CacheKeys == AssetTypes \X Symbols

CacheHit(key) ==
    /\ priceCache[key].timestamp # Absent
    /\ now - priceCache[key].timestamp < CacheTtl

\* ------------------------------------------------- checkAllAlerts, pieces
\* the final save stamping lastChecked only
FinishKeepsPrice(r) ==
    [r EXCEPT !.doc.lastChecked = now, !.pc = "savePrice"]

\* lines 148-150: stamp lastChecked and currentPrice, then await alert.save()
Finish(r) ==
    [r EXCEPT !.doc.lastChecked = now, !.doc.currentPrice = r.price,
              !.pc = "savePrice"]

\* triggerAlert looking up the user and sending before it saves the status
EvaluateSendFirst(r, p) ==
    IF shouldTriggerAlert(r.doc, p)
    THEN [r EXCEPT !.price = p, !.doc.status = "triggered",
                   !.doc.triggeredAt = now, !.pc = "findUser"]
    ELSE Finish([r EXCEPT !.price = p])

\* lines 143-150 once getCurrentPrice has returned p: the predicate, and either
\* triggerAlert up to its first await (lines 212-214) or the final save
Evaluate(r, p) ==
    IF shouldTriggerAlert(r.doc, p)
    THEN [r EXCEPT !.price = p, !.doc.status = "triggered",
                   !.doc.triggeredAt = now, !.pc = "saveTrigger"]
    ELSE Finish([r EXCEPT !.price = p])

\* line 141, getCurrentPrice lines 159-163: a cache hit returns at once, a miss
\* sends the fetcher's request (askedAt: when) and awaits the answer
BeginAlert(r) ==
    IF CacheHit(CacheKey(r.doc))
    THEN Evaluate(r, priceCache[CacheKey(r.doc)].price)
    ELSE [r EXCEPT !.pc = "fetch", !.askedAt = now]

\* line 139: the for loop takes the next document, or checkAllAlerts returns and
\* monitorLoop awaits the timer of line 127
NextAlert(r) ==
    IF r.rest = <<>>
    THEN [DeadLoop EXCEPT !.pc = "sleep", !.wakeAt = now + priceUpdateInterval]
    ELSE BeginAlert([DeadLoop EXCEPT !.doc = Head(r.rest), !.rest = Tail(r.rest)])

\* the loop-level catch returning from monitorLoop instead of sleeping
CatchLoopExits(r) ==
    DeadLoop

\* the loop-level catch awaiting the same timer as line 127
CatchLoopNormal(r) ==
    [DeadLoop EXCEPT !.pc = "sleep", !.wakeAt = now + priceUpdateInterval]

\* lines 128-132: the loop-level catch logs and awaits the doubled timer
CatchLoop(r) ==
    [DeadLoop EXCEPT !.pc = "sleep", !.wakeAt = now + priceUpdateInterval * 2]

\* checkAllAlerts without the try/catch of lines 140 and 151-153: the error
\* reaches monitorLoop's catch and the rest of the cycle is dropped
CatchAborts(r) ==
    [CatchLoop(r) EXCEPT !.caught = TRUE]

\* lines 151-153: the per-alert catch logs the error and the for loop goes on.
\* caught records, until the loop's next step, that this step ended in the catch.
CatchAlert(r) ==
    [NextAlert(r) EXCEPT !.caught = TRUE]

\* The loop's record as its next step finds it.
Resume(r) == [r EXCEPT !.caught = FALSE]

\* The documents TradeAlert.find({status: 'active'}) returns, in _id order.
RECURSIVE ActiveFrom(_)
ActiveFrom(a) ==
    IF a > MaxAlerts THEN <<>>
    ELSE IF store[a].status = "active" THEN <<store[a]>> \o ActiveFrom(a + 1)
    ELSE ActiveFrom(a + 1)

\* ----------------------------------------------------------- rateLimit.js
\* hits: key -> the timestamps (ms) of the requests passed on, oldest first (a
\* key that is not in the Map holds no timestamp); clock: Date.now(); reply:
\* what the last request got; passed: history, every timestamp ever passed
\* to next(), per key.
RateKeys == {"ip1", "ip2"}

NewLimiter ==
    [hits |-> [k \in RateKeys |-> <<>>],
     clock |-> 0,
     reply |-> [status |-> 0, retryAfter |-> 0],
     passed |-> [k \in RateKeys |-> <<>>]]

\* lines 31-33: while (timestamps.length && timestamps[0] <= cutoff) shift()
RECURSIVE DropOld(_, _)
DropOld(timestamps, cutoff) ==
    IF timestamps # <<>> /\ Head(timestamps) <= cutoff
    THEN DropOld(Tail(timestamps), cutoff)
    ELSE timestamps

\* Math.ceil(a / b) for b > 0
Ceil(a, b) == 0 - ((0 - a) \div b)

\* the limit tested one request late
FullLate(timestamps) == Len(timestamps) > max

\* line 35
Full(timestamps) == Len(timestamps) >= max

\* lines 17-46 with the default options (skip is false, the key is req.ip)
rateLimit(key) ==
    LET cutoff == limiter.clock - windowMs
        timestamps == DropOld(limiter.hits[key], cutoff) IN
    /\ limiter' =
           IF Full(timestamps)
           THEN [limiter EXCEPT
                    !.hits[key] = timestamps,
                    !.reply = [status |-> 429,
                               retryAfter |->
                                   Ceil(timestamps[1] + windowMs - limiter.clock, 1000)]]
           ELSE [limiter EXCEPT
                    !.hits[key] = Append(timestamps, limiter.clock),
                    !.reply = [status |-> 200, retryAfter |-> 0],
                    !.passed[key] = Append(@, limiter.clock)]
    /\ UNCHANGED <<monitorVars, emotion>>

\* Date.now() moves on
ClockTick ==
    /\ limiter.clock < MaxTicks * TickMs
    /\ limiter' = [limiter EXCEPT !.clock = @ + TickMs]
    /\ UNCHANGED <<monitorVars, emotion>>

\* --------------------------------------------------- emotionDetectService
\* A text is described by the keyword lists it has a word of: the FOMO
\* patterns of lines 22-27, and the confidence, fear and neutral lists of
\* lines 14-16.
KeywordLists == {"fomo", "confidence", "fear", "neutral"}
Texts == SUBSET KeywordLists

\* the labels FinBERT answers with, and one it does not
Sentiments == {"positive", "negative", "neutral", "other"}

\* tradeSchema.emotionAnalysis.detected: enum
TradeLabels == {"positive", "negative", "neutral"}

NoResult ==
    [detected |-> "", confidence |-> 0, source |-> "", rawSentiment |-> "",
     emotionType |-> ""]
NoCall == [pc |-> "idle", text |-> {}, hasKey |-> FALSE, result |-> NoResult]

\* lines 5-9, and line 144: emotionMap[label] || 'neutral'
emotionMap(label) ==
    CASE label = "positive" -> "confidence"
      [] label = "negative" -> "fear"
      [] OTHER -> "neutral"

\* lines 12-51; the confidence is in tenths
detectEmotionFromKeywords(text) ==
    IF "fomo" \in text
    THEN [detected |-> "fear", confidence |-> 8, source |-> "keyword",
          rawSentiment |-> "", emotionType |-> "fomo"]
    ELSE IF "confidence" \in text
    THEN [detected |-> "confidence", confidence |-> 7, source |-> "keyword",
          rawSentiment |-> "", emotionType |-> ""]
    ELSE IF "fear" \in text
    THEN [detected |-> "fear", confidence |-> 7, source |-> "keyword",
          rawSentiment |-> "", emotionType |-> ""]
    ELSE IF "neutral" \in text
    THEN [detected |-> "neutral", confidence |-> 7, source |-> "keyword",
          rawSentiment |-> "", emotionType |-> ""]
    ELSE [detected |-> "neutral", confidence |-> 5, source |-> "keyword",
          rawSentiment |-> "", emotionType |-> ""]

\* lines 99-118: without an API key the keyword result is returned at once,
\* with one the request to the FinBERT endpoint is awaited
analyzeEmotion(text, hasKey) ==
    /\ emotion.pc = "idle"
    /\ emotion' =
           IF hasKey
           THEN [NoCall EXCEPT !.pc = "post", !.text = text, !.hasKey = TRUE]
           ELSE [NoCall EXCEPT !.pc = "done", !.text = text,
                               !.result = detectEmotionFromKeywords(text)]
    /\ UNCHANGED <<monitorVars, limiter>>

\* line 108 rejects (network, status code, timeout), or line 123 throws on an
\* answer that is no array: lines 150-159 fall back to the keywords
PostFails ==
    /\ emotion.pc = "post"
    /\ emotion' = [emotion EXCEPT !.pc = "done",
                                   !.result = detectEmotionFromKeywords(emotion.text)]
    /\ UNCHANGED <<monitorVars, limiter>>

\* lines 121-149: the answer's top sentiment is mapped; the confidence is not
\* modelled
PostOk(label) ==
    /\ emotion.pc = "post"
    /\ emotion' = [emotion EXCEPT
                       !.pc = "done",
                       !.result = [detected |-> emotionMap(label), confidence |-> 0,
                                   source |-> "finbert", rawSentiment |-> label,
                                   emotionType |->
                                       IF "fomo" \in emotion.text THEN "fomo" ELSE ""]]
    /\ UNCHANGED <<monitorVars, limiter>>

\* the caller has the result
Returned ==
    /\ emotion.pc = "done"
    /\ emotion' = NoCall
    /\ UNCHANGED <<monitorVars, limiter>>

\* ------------------------------------------------------------------ Init
InitCommon ==
    /\ isRunning = FALSE
    /\ loops = [l \in Loops |-> DeadLoop]
    /\ priceCache = [k \in CacheKeys |-> NoEntry]
    /\ now = 1
    /\ sends = [a \in AlertIds |-> NoTries]
    /\ stamped = [a \in AlertIds |-> 0]
    /\ calls = [starts |-> 0, stopped |-> FALSE]
    /\ limiter = NewLimiter
    /\ emotion = NoCall

Init ==
    /\ InitCommon
    /\ store = [a \in AlertIds |-> NoAlert]
    /\ nextId = 1

\* --------------------------------------------------- start / stop / timer
\* monitorLoop() up to its first await: while (isRunning), checkAllAlerts,
\* TradeAlert.find
Spawn == [DeadLoop EXCEPT !.pc = "find"]

FreeSlot == CHOOSE l \in Loops \ Live : \A m \in Loops \ Live : l <= m

\* history: count the call
Counted == [calls EXCEPT !.starts = IF calls.stopped THEN @ ELSE Bump(@)]

\* startMonitoring without the isRunning test of line 114
StartUnguarded ==
    /\ calls' = Counted
    /\ Loops \ Live # {}
    /\ isRunning' = TRUE
    /\ loops' = [loops EXCEPT ![FreeSlot] = Spawn]
    /\ UNCHANGED <<store, nextId, priceCache, now, sends, stamped, limiter, emotion>>

\* lines 113-117
StartMonitoring ==
    /\ calls' = Counted
    /\ IF isRunning
       THEN UNCHANGED <<isRunning, loops>>
       ELSE /\ Loops \ Live # {}
            /\ isRunning' = TRUE
            /\ loops' = [loops EXCEPT ![FreeSlot] = Spawn]
    /\ UNCHANGED <<store, nextId, priceCache, now, sends, stamped, limiter, emotion>>

StopMonitoring ==
    /\ isRunning' = FALSE
    /\ calls' = [starts |-> 0, stopped |-> TRUE]
    /\ UNCHANGED <<store, nextId, loops, priceCache, now, sends, stamped, limiter, emotion>>

Tick ==
    /\ now < MaxTime
    /\ now' = now + 1
    /\ UNCHANGED <<store, nextId, isRunning, loops, priceCache, sends, stamped, calls, limiter, emotion>>

\* monitorLoop as while (true): the timer fires and the next cycle begins
WakeIgnoresStop(l) ==
    /\ loops[l].pc = "sleep"
    /\ now >= loops[l].wakeAt
    /\ loops' = [loops EXCEPT ![l] = Spawn]
    /\ UNCHANGED <<store, nextId, isRunning, priceCache, now, sends, stamped, calls, limiter, emotion>>

\* The timer of line 127 or 131 fires: the while condition of line 124 is read
\* again, and the loop either returns or calls checkAllAlerts.
Wake(l) ==
    /\ loops[l].pc = "sleep"
    /\ now >= loops[l].wakeAt
    /\ loops' = [loops EXCEPT ![l] = IF isRunning THEN Spawn ELSE DeadLoop]
    /\ UNCHANGED <<store, nextId, isRunning, priceCache, now, sends, stamped, calls, limiter, emotion>>

\* -------------------------------------------------------- checkAllAlerts
\* line 137 resolves: the for loop starts on the first document, or there is
\* none and the cycle is over
FindOk(l) ==
    /\ loops[l].pc = "find"
    /\ loops' = [loops EXCEPT ![l] = NextAlert([@ EXCEPT !.rest = ActiveFrom(1)])]
    /\ UNCHANGED <<store, nextId, isRunning, priceCache, now, sends, stamped, calls, limiter, emotion>>

\* line 137 rejects: the error leaves checkAllAlerts
FindFail(l) ==
    /\ loops[l].pc = "find"
    /\ loops' = [loops EXCEPT ![l] = CatchLoop(@)]
    /\ UNCHANGED <<store, nextId, isRunning, priceCache, now, sends, stamped, calls, limiter, emotion>>

\* getCurrentPrice lines 167-190: the fetcher returns what it read in the
\* answer, p, and the cache entry is set with it
FetchOk(l, p) ==
    /\ loops[l].pc = "fetch"
    /\ priceCache' = [priceCache EXCEPT ![CacheKey(loops[l].doc)] =
                          [price |-> p, timestamp |-> now]]
    /\ loops' = [loops EXCEPT ![l] = Evaluate([Resume(@) EXCEPT !.askedAt = 0], p)]
    /\ UNCHANGED <<store, nextId, isRunning, now, sends, stamped, calls, limiter, emotion>>

\* the fetcher rejects: network error, status code, or an answer without the
\* symbol (response.data[symbol] is undefined and reading .usd throws)
FetchFail(l) ==
    /\ loops[l].pc = "fetch"
    /\ loops' = [loops EXCEPT ![l] = CatchAlert(@)]
    /\ UNCHANGED <<store, nextId, isRunning, priceCache, now, sends, stamped, calls, limiter, emotion>>

\* ----------------------------------------------------------- triggerAlert
\* a save at line 214 that also moves the threshold to the observed price
SaveTriggerRebases(l) ==
    LET a == loops[l].doc.id IN
    /\ loops[l].pc = "saveTrigger"
    /\ Exists(a)
    /\ store' = [store EXCEPT ![a].status = "triggered",
                              ![a].triggeredAt = loops[l].doc.triggeredAt,
                              ![a].triggerValue = loops[l].price]
    /\ stamped' = [stamped EXCEPT ![a] = Bump(@)]
    /\ loops' = [loops EXCEPT ![l].pc = "findUser", ![l].caught = FALSE,
                              ![l].wrote = @ \cup {"status", "triggeredAt"}]
    /\ UNCHANGED <<nextId, isRunning, priceCache, now, sends, calls, limiter, emotion>>

\* line 214 resolves: save() has written the modified paths status and
\* triggeredAt to the document of that _id; line 217 awaits User.findById
SaveTriggerOk(l) ==
    LET a == loops[l].doc.id IN
    /\ loops[l].pc = "saveTrigger"
    /\ Exists(a)
    /\ store' = [store EXCEPT ![a].status = "triggered",
                              ![a].triggeredAt = loops[l].doc.triggeredAt]
    /\ stamped' = [stamped EXCEPT ![a] = Bump(@)]
    /\ loops' = [loops EXCEPT ![l].pc = "findUser", ![l].caught = FALSE,
                              ![l].wrote = @ \cup {"status", "triggeredAt"}]
    /\ UNCHANGED <<nextId, isRunning, priceCache, now, sends, calls, limiter, emotion>>

\* line 214 rejects: the store is unreachable, or the document is gone
\* (DocumentNotFoundError)
SaveTriggerFail(l) ==
    /\ loops[l].pc = "saveTrigger"
    /\ loops' = [loops EXCEPT ![l] = CatchAlert(@)]
    /\ UNCHANGED <<store, nextId, isRunning, priceCache, now, sends, stamped, calls, limiter, emotion>>

\* triggerAlert returning past the final save of lines 148-150
AfterEmailSkipsSave(r) ==
    NextAlert([r EXCEPT !.tried = NoTries])

\* lines 229-243 and the return to line 148: the telegram and sms blocks.
\* sendTelegramMessage and sendSMS are not defined in the module (their
\* imports are commented out), so each call throws a ReferenceError at once,
\* inside its try block.
TriesAfterEmail(r) ==
    [ch \in Channels |->
        IF ch # "email" /\ r.doc.channels[ch] /\ r.usr[ch]
        THEN r.tried[ch] + 1 ELSE r.tried[ch]]

AfterEmail(r) ==
    Finish([r EXCEPT !.tried = TriesAfterEmail(r)])

\* a telegram failure that leaves triggerAlert: the sms block is not reached
SendsStopAtTelegram(r) ==
    [sends EXCEPT ![r.doc.id] =
        [ch \in Channels |->
            IF \/ ch = "telegram" /\ r.doc.channels[ch] /\ r.usr[ch]
               \/ /\ ch = "sms" /\ r.doc.channels[ch] /\ r.usr[ch]
                  /\ ~(r.doc.channels.telegram /\ r.usr.telegram)
            THEN Bump(@[ch]) ELSE @[ch]]]

SendsAfterEmail(r) ==
    [sends EXCEPT ![r.doc.id] =
        [ch \in Channels |->
            IF ch # "email" /\ r.doc.channels[ch] /\ r.usr[ch]
            THEN Bump(@[ch]) ELSE @[ch]]]

\* line 217 resolves with a user: line 221 decides the email block
UserFound(l) ==
    LET r == [loops[l] EXCEPT !.usr = UserTable[loops[l].doc.user],
                              !.caught = FALSE] IN
    /\ loops[l].pc = "findUser"
    /\ IF r.doc.channels.email
       THEN /\ loops' = [loops EXCEPT ![l] =
                            [r EXCEPT !.pc = "email", !.tried.email = @ + 1]]
            /\ sends' = [sends EXCEPT ![r.doc.id].email = Bump(@)]
       ELSE /\ loops' = [loops EXCEPT ![l] = AfterEmail(r)]
            /\ sends' = SendsAfterEmail(r)
    /\ UNCHANGED <<store, nextId, isRunning, priceCache, now, stamped, calls, limiter, emotion>>

\* line 218 throwing instead of returning: the per-alert catch takes over
UserMissingThrows(l) ==
    /\ loops[l].pc = "findUser"
    /\ loops' = [loops EXCEPT ![l] = CatchAlert(@)]
    /\ UNCHANGED <<store, nextId, isRunning, priceCache, now, sends, stamped, calls, limiter, emotion>>

\* line 217 resolves with null: line 218 returns
UserMissing(l) ==
    /\ loops[l].pc = "findUser"
    /\ loops' = [loops EXCEPT ![l] = Finish(Resume(@))]
    /\ UNCHANGED <<store, nextId, isRunning, priceCache, now, sends, stamped, calls, limiter, emotion>>

\* line 217 rejects: the error leaves triggerAlert
UserFail(l) ==
    /\ loops[l].pc = "findUser"
    /\ loops' = [loops EXCEPT ![l] = CatchAlert(@)]
    /\ UNCHANGED <<store, nextId, isRunning, priceCache, now, sends, stamped, calls, limiter, emotion>>

\* line 223 resolves: the transport accepted the mail
EmailOk(l) ==
    /\ loops[l].pc = "email"
    /\ loops' = [loops EXCEPT ![l] = AfterEmail(Resume(@))]
    /\ sends' = SendsAfterEmail(loops[l])
    /\ UNCHANGED <<store, nextId, isRunning, priceCache, now, stamped, calls, limiter, emotion>>

\* line 223 rejects (sendEmail rethrows the transport's error): lines 224-226
\* log it
\* triggerAlert without the try/catch of lines 222-226 around the email send
EmailThrows(r) ==
    CatchAlert(r)

EmailRejected(r) ==
    AfterEmail([r EXCEPT !.mailErr = TRUE])

EmailFail(l) ==
    /\ loops[l].pc = "email"
    /\ loops' = [loops EXCEPT ![l] = EmailRejected(Resume(@))]
    /\ sends' = SendsAfterEmail(loops[l])
    /\ UNCHANGED <<store, nextId, isRunning, priceCache, now, stamped, calls, limiter, emotion>>

\* line 150 resolves: save() has validated the document (currentPrice is a
\* required Number: undefined and null are rejected) and written lastChecked and
\* currentPrice
SavePriceOk(l) ==
    LET a == loops[l].doc.id IN
    /\ loops[l].pc = "savePrice"
    /\ Exists(a)
    /\ IsNumber(loops[l].doc.currentPrice)
    /\ store' = [store EXCEPT ![a].lastChecked = loops[l].doc.lastChecked,
                              ![a].currentPrice = loops[l].doc.currentPrice]
    /\ loops' = [loops EXCEPT ![l] =
                    NextAlert([@ EXCEPT !.wrote = @ \cup {"lastChecked", "currentPrice"}])]
    /\ UNCHANGED <<nextId, isRunning, priceCache, now, sends, stamped, calls, limiter, emotion>>

\* line 150 rejects: validation, the store, or the document is gone
SavePriceFail(l) ==
    /\ loops[l].pc = "savePrice"
    /\ loops' = [loops EXCEPT ![l] = CatchAlert(@)]
    /\ UNCHANGED <<store, nextId, isRunning, priceCache, now, sends, stamped, calls, limiter, emotion>>

\* ------------------------------------------------------------ the monitor
\* The steps of the monitorLoop() invocations.
LoopStep ==
    \/ \E l \in Loops : Wake(l)
    \/ \E l \in Loops : FindOk(l)
    \/ \E l \in Loops : FindFail(l)
    \/ \E l \in Loops, p \in Answers : FetchOk(l, p)
    \/ \E l \in Loops : FetchFail(l)
    \/ \E l \in Loops : SaveTriggerOk(l)
    \/ \E l \in Loops : SaveTriggerFail(l)
    \/ \E l \in Loops : UserFound(l)
    \/ \E l \in Loops : UserMissing(l)
    \/ \E l \in Loops : UserFail(l)
    \/ \E l \in Loops : EmailOk(l)
    \/ \E l \in Loops : EmailFail(l)
    \/ \E l \in Loops : SavePriceOk(l)
    \/ \E l \in Loops : SavePriceFail(l)

\* The monitor over a fixed collection of alerts: start, stop, the clock and
\* the loops.
NextMonitor ==
    \/ StartMonitoring
    \/ StopMonitoring
    \/ Tick
    \/ LoopStep

\* createAlert lines 7-11: {...req.body, user: req.user._id, currentPrice:
\* req.body.currentPrice || 0}; undefined, null and 0 are falsy. body.user is
\* the user who sends the request.
alertData(body) ==
    [body EXCEPT !.currentPrice = IF @ \in {Undefined, Null, 0} THEN 0 ELSE @]

\* The alerts the monitor-only specification starts from: every alert was
\* created active, before the first startMonitoring().
AllOn == [email |-> TRUE, telegram |-> TRUE, sms |-> TRUE]
NoMail == [email |-> FALSE, telegram |-> TRUE, sms |-> TRUE]

Body(u, s, t, v, c) ==
    [user |-> u, symbol |-> s, assetType |-> "crypto", triggerType |-> t,
     triggerValue |-> v, currentPrice |-> 1, channels |-> c]

AboveBody == Body("u1", "bitcoin", "price_above", 1, AllOn)
BelowBody == Body("u2", "bitcoin", "price_below", 2, AllOn)
\* a 60 percent change from a price of 2
ChangeBody ==
    [Body("u1", "ethereum", "percentage_change", 60, NoMail) EXCEPT !.currentPrice = 2]
VolumeBody == Body("u1", "bitcoin", "volume_spike", 1, AllOn)
StockBody ==
    [Body("u2", "ethereum", "price_above", 1, AllOn) EXCEPT !.assetType = "stock"]

Seeds == {<<AboveBody, BelowBody>>, <<ChangeBody, AboveBody>>, <<VolumeBody, StockBody>>}

InitMonitor ==
    /\ InitCommon
    /\ \E seed \in Seeds :
           store = [a \in AlertIds |-> NewAlert(a, alertData(seed[((a - 1) % 2) + 1]))]
    /\ nextId = MaxAlerts + 1

SpecMonitor == InitMonitor /\ [][NextMonitor]_vars

\* ------------------------------------------- the monitor started and left on
\* a percentage alert created without a currentPrice
ZeroBody ==
    [Body("u1", "ethereum", "percentage_change", 60, AllOn) EXCEPT !.currentPrice = Undefined]

LiveSeeds == {<<ZeroBody, AboveBody>>, <<BelowBody, ChangeBody>>}

\* The clock runs one interval further than in the other specifications, so
\* that a doubled sleep begun at the start ends within it.
LiveTime == MaxTime + priceUpdateInterval

TickLive ==
    /\ now < LiveTime
    /\ now' = now + 1
    /\ UNCHANGED <<store, nextId, isRunning, loops, priceCache, sends, stamped, calls, limiter, emotion>>

InitLive ==
    /\ InitCommon
    /\ \E seed \in LiveSeeds :
           store = [a \in AlertIds |-> NewAlert(a, alertData(seed[((a - 1) % 2) + 1]))]
    /\ nextId = MaxAlerts + 1

\* startMonitoring() is called, stopMonitoring() never: time passes, and every
\* promise a loop awaits settles.
NextLive ==
    \/ StartMonitoring
    \/ TickLive
    \/ LoopStep

SpecLive ==
    InitLive /\ [][NextLive]_vars /\ WF_vars(TickLive) /\ WF_vars(LoopStep)

\* -------------------------------------------------------- alertController
\* The request bodies the model sends to POST /alerts, each with the user who
\* sends it.
CreateRequests == {AboveBody, BelowBody}

\* createAlert: new TradeAlert(alertData), save
CreateAlert(body) ==
    /\ nextId <= MaxAlerts
    /\ store' = [store EXCEPT ![nextId] = NewAlert(nextId, alertData(body))]
    /\ nextId' = nextId + 1
    /\ UNCHANGED <<isRunning, loops, priceCache, now, sends, stamped, calls, limiter, emotion>>

\* The request bodies the model sends to PUT /alerts/:id: one field each.
Patches ==
    {[field |-> "status", value |-> v] : v \in Statuses}
        \cup {[field |-> "triggerValue", value |-> MaxPrice]}

\* Request bodies that name the owner or the symbol.
OwnerPatches ==
    {[field |-> "user", value |-> "u2"],
     [field |-> "symbol", value |-> "ethereum"]}

\* findOneAndUpdate applies req.body as it is: runValidators checks each value
\* against its schema type and enum, nothing else.
Patched(doc, patch) ==
    CASE patch.field = "status" -> [doc EXCEPT !.status = patch.value]
      [] patch.field = "user" -> [doc EXCEPT !.user = patch.value]
      [] patch.field = "symbol" -> [doc EXCEPT !.symbol = patch.value]
      [] OTHER -> [doc EXCEPT !.triggerValue = patch.value]

\* updateAlert: findOneAndUpdate({_id, user: req.user._id}, req.body); a filter
\* that matches nothing answers 404 and changes nothing
UpdateAlert(u, a, patch) ==
    /\ Exists(a)
    /\ store[a].user = u
    /\ store' = [store EXCEPT ![a] = Patched(@, patch)]
    /\ UNCHANGED <<nextId, isRunning, loops, priceCache, now, sends, stamped, calls, limiter, emotion>>

\* deleteAlert: findOneAndDelete({_id, user: req.user._id})
DeleteAlert(u, a) ==
    /\ Exists(a)
    /\ store[a].user = u
    /\ store' = [store EXCEPT ![a] = NoAlert]
    /\ UNCHANGED <<nextId, isRunning, loops, priceCache, now, sends, stamped, calls, limiter, emotion>>

\* The controller's requests against a monitor that is started and left
\* running.
Next ==
    \/ StartMonitoring
    \/ Tick
    \/ LoopStep
    \/ \E body \in CreateRequests : CreateAlert(body)
    \/ \E u \in Users, a \in AlertIds, patch \in Patches : UpdateAlert(u, a, patch)
    \/ \E u \in Users, a \in AlertIds : DeleteAlert(u, a)

Spec == Init /\ [][Next]_vars

\* The same, with the update requests that name the owner or the symbol.
NextOwner ==
    \/ StartMonitoring
    \/ Tick
    \/ LoopStep
    \/ \E body \in CreateRequests : CreateAlert(body)
    \/ \E u \in Users, a \in AlertIds, patch \in OwnerPatches : UpdateAlert(u, a, patch)
    \/ \E u \in Users, a \in AlertIds : DeleteAlert(u, a)

SpecOwner == Init /\ [][NextOwner]_vars

\* ------------------------------------------------- the other two services
\* One rate limiter instance serving requests of two clients.
NextLimiter ==
    \/ \E key \in RateKeys : rateLimit(key)
    \/ ClockTick

SpecLimiter == Init /\ [][NextLimiter]_vars

\* analyzeEmotion called on one text after another.
NextEmotion ==
    \/ \E text \in Texts, hasKey \in BOOLEAN : analyzeEmotion(text, hasKey)
    \/ PostFails
    \/ \E label \in Sentiments : PostOk(label)
    \/ Returned

SpecEmotion == Init /\ [][NextEmotion]_vars

\* ================================================================ claims
Triggered(a) == store[a].status = "triggered" /\ store[a].triggeredAt # Absent

\* C1: with startMonitoring() called any number of times and stopMonitoring()
\* never, exactly one monitor loop is alive once started, and no alert gets a
\* second trigger write or a second send attempt on any channel.
C1_StartTwiceOneLoop ==
    ~calls.stopped =>
        /\ Cardinality(Live) = IF calls.starts = 0 THEN 0 ELSE 1
        /\ \A a \in AlertIds :
               stamped[a] <= 1 /\ \A ch \in Channels : sends[a][ch] <= 1

\* startMonitoring() was called twice, no stop, and the one loop has fired an
\* alert and sent its email
C1_Witness ==
    /\ ~calls.stopped
    /\ calls.starts >= 2
    /\ Cardinality(Live) = 1
    /\ \E a \in AlertIds : sends[a].email = 1 /\ stamped[a] = 1

\* C2: at most one monitor loop is alive at any moment, whatever the sequence
\* of startMonitoring() and stopMonitoring() calls.
C2_SingleLoop ==
    Cardinality(Live) <= 1

\* The errors the per-alert catch of checkAllAlerts receives: a failed price
\* fetch and a failed write; and with them a failed user lookup.
StoreOrFetchError(l) == FetchFail(l) \/ SaveTriggerFail(l) \/ SavePriceFail(l)
PerAlertError(l) == StoreOrFetchError(l) \/ UserFail(l)

\* After the error the for loop takes the next document the cycle read, or the
\* cycle is over and the loop sleeps the normal interval.
Continues(l) ==
    IF loops[l].rest = <<>>
    THEN /\ loops'[l].pc = "sleep"
         /\ loops'[l].wakeAt = now + priceUpdateInterval
    ELSE /\ loops'[l].pc \in {"fetch", "saveTrigger", "savePrice"}
         /\ loops'[l].doc.id = Head(loops[l].rest).id
         /\ loops'[l].rest = Tail(loops[l].rest)

\* C3 as claimed: a price fetch failure or a failed write leaves the failing
\* alert's stored currentPrice, lastChecked and status as they were when its
\* processing began (the cycle has persisted nothing for it), and the cycle
\* goes on with the other alerts.
C3_ErrorLeavesAlertUntouched ==
    [][\A l \in Loops :
          StoreOrFetchError(l) =>
              /\ loops[l].wrote = {}
              /\ store' = store
              /\ Continues(l)]_vars

\* C3 amended: a per-alert error writes nothing, the cycle has persisted
\* neither currentPrice nor lastChecked for the failing alert, it has persisted
\* status and triggeredAt only when the error came after triggerAlert's own
\* save (the alert is then stored triggered), and the cycle goes on with the
\* other alerts without the error leaving checkAllAlerts.
C3_ErrorConfined ==
    [][\A l \in Loops :
          PerAlertError(l) =>
              /\ loops[l].wrote \subseteq {"status", "triggeredAt"}
              /\ loops[l].wrote # {} => Triggered(loops[l].doc.id)
              /\ loops[l].wrote # {} => loops[l].pc \in {"findUser", "savePrice"}
              /\ store' = store
              /\ Continues(l)]_vars

\* one loop only: its final save for alert 1 failed after the trigger write
\* was persisted, and it is now fetching the price for alert 2
C3_Witness ==
    /\ ~calls.stopped
    /\ \E l \in Loops :
           /\ loops[l].caught
           /\ loops[l].pc = "fetch"
           /\ loops[l].doc.id = 2
           /\ Triggered(1)
           /\ sends[1].email = 1

\* C4: each alert causes at most one send attempt per notification channel.
C4_AtMostOneAttempt ==
    \A a \in AlertIds : \A ch \in Channels : sends[a][ch] <= 1

\* C5: the only status changes of a stored alert are active -> triggered and
\* active -> cancelled.
C5_StatusTransitions ==
    [][\A a \in AlertIds :
          (Exists(a) /\ store'[a].status \notin {"none", store[a].status}) =>
              /\ store[a].status = "active"
              /\ store'[a].status \in {"triggered", "cancelled"}]_vars

\* C6: the monitor loop's trigger write never lands on an alert whose stored
\* status is cancelled.
C6_TriggerOnlyIfActive ==
    [][\A l \in Loops :
          SaveTriggerOk(l) => store[loops[l].doc.id].status # "cancelled"]_vars

\* C7: triggeredAt is absent while the status is active, present once it is
\* triggered, and is written at most once.
C7_TriggeredAtOnce ==
    \A a \in AlertIds :
        /\ store[a].status = "active" => store[a].triggeredAt = Absent
        /\ store[a].status = "triggered" => store[a].triggeredAt # Absent
        /\ stamped[a] <= 1

\* C8: a send is attempted for an alert only when status triggered and
\* triggeredAt are in the store, and a loop past triggerAlert's save (looking
\* up the user, or sending) has persisted them itself.
C8_PersistBeforeSend ==
    /\ \A a \in AlertIds : \A ch \in Channels :
           sends[a][ch] > 0 => Triggered(a) /\ stamped[a] > 0
    /\ \A l \in Loops :
           (loops[l].pc \in {"findUser", "email"}
                \/ \E ch \in Channels : loops[l].tried[ch] > 0) =>
               /\ {"status", "triggeredAt"} \subseteq loops[l].wrote
               /\ Triggered(loops[l].doc.id)

\* a loop is awaiting the mail transport for an alert it has stored as triggered
C8_Witness ==
    \E l \in Loops :
        /\ loops[l].pc = "email"
        /\ sends[loops[l].doc.id].email = 1
        /\ Triggered(loops[l].doc.id)

\* C9: when the mail transport rejects, the store is not written, the alert
\* stays stored as triggered, and control returns to checkAllAlerts at its
\* final save for the same alert instead of reaching the per-alert catch.
C9_EmailFailureContained ==
    [][\A l \in Loops :
          EmailFail(l) =>
              /\ store' = store
              /\ Triggered(loops[l].doc.id)
              /\ loops'[l].pc = "savePrice"
              /\ loops'[l].doc.id = loops[l].doc.id
              /\ loops'[l].mailErr
              /\ ~loops'[l].caught]_vars

\* the email failed and the loop is at its final save, the alert still triggered
C9_Witness ==
    \E l \in Loops :
        /\ loops[l].mailErr
        /\ loops[l].pc = "savePrice"
        /\ Triggered(loops[l].doc.id)

\* A channel is due for an alert when the alert's flag and its owner's
\* preference for the channel are both on.
Due(a, ch) == store[a].channels[ch] /\ UserTable[store[a].user][ch]

\* C10: one triggerAlert call attempts every due channel exactly once and no
\* channel twice, whatever the email's outcome; and once an alert's email
\* attempt is over, its due telegram and sms sends have been attempted.
C10_EveryChannelAttempted ==
    /\ \A l \in Loops : \A ch \in Channels :
           /\ loops[l].tried[ch] <= 1
           /\ (loops[l].pc = "savePrice" /\ loops[l].usr.found
                   /\ Due(loops[l].doc.id, ch)) => loops[l].tried[ch] = 1
    /\ \A a \in AlertIds :
           (sends[a].email > 0
                /\ \A l \in Loops : ~(loops[l].pc = "email" /\ loops[l].doc.id = a)) =>
               \A ch \in {"telegram", "sms"} : Due(a, ch) => sends[a][ch] > 0

\* the email failed, and telegram and sms were each attempted once after it
C10_Witness ==
    \E l \in Loops :
        /\ loops[l].mailErr
        /\ loops[l].tried = [ch \in Channels |-> 1]

\* C11: a send on a channel is attempted for an alert only if the alert's flag
\* for the channel and its owner's preference for the channel are both on.
C11_SendOnlyIfBothEnabled ==
    \A a \in AlertIds : \A ch \in Channels : sends[a][ch] > 0 => Due(a, ch)

\* An alert as shouldTriggerAlert reads it, and the prices it is tried with.
Sample(t, v, cp) == [triggerType |-> t, triggerValue |-> v, currentPrice |-> cp]
SamplePrices == 0..(MaxPrice + 1)

\* The loop has evaluated the predicate for its alert on a numeric price and
\* it fired (triggerAlert's save is awaited), or it did not (the final save is
\* awaited and nothing was written for the alert).
Fired(l) == loops[l].pc = "saveTrigger" /\ IsNumber(loops[l].price)
NotFired(l) ==
    loops[l].pc = "savePrice" /\ loops[l].wrote = {} /\ IsNumber(loops[l].price)

\* C12: price_above fires iff the observed price is greater than triggerValue,
\* price_below iff it is less; an equal price fires neither.  Stated of the
\* function on every sampled pair, and of every evaluation a monitor loop makes.
ThresholdsExact ==
    \A v \in SamplePrices, p \in SamplePrices :
        /\ shouldTriggerAlert(Sample("price_above", v, 1), p) <=> p > v
        /\ shouldTriggerAlert(Sample("price_below", v, 1), p) <=> p < v

C12_PriceThresholds ==
    /\ ThresholdsExact
    /\ \A l \in Loops :
           /\ (Fired(l) /\ loops[l].doc.triggerType = "price_above") =>
                  loops[l].price > loops[l].doc.triggerValue
           /\ (Fired(l) /\ loops[l].doc.triggerType = "price_below") =>
                  loops[l].price < loops[l].doc.triggerValue
           /\ (NotFired(l) /\ loops[l].doc.triggerType = "price_above") =>
                  loops[l].price <= loops[l].doc.triggerValue
           /\ (NotFired(l) /\ loops[l].doc.triggerType = "price_below") =>
                  loops[l].price >= loops[l].doc.triggerValue

\* a price_above alert was evaluated on a price equal to its triggerValue and
\* did not fire
C12_Witness ==
    \E l \in Loops :
        /\ NotFired(l)
        /\ loops[l].doc.triggerType = "price_above"
        /\ loops[l].price = loops[l].doc.triggerValue

\* abs((p - cp) / cp * 100) >= v for cp > 0, without the division
PercentAtLeast(cp, p, v) == Abs(p - cp) * 100 >= v * cp
SamplePercents == {0, 50, 60, 100, 101}

\* C13: a percentage_change alert fires iff the change of the observed price
\* from the alert's stored currentPrice is at least triggerValue percent; the
\* baseline is the currentPrice the cycle read from the store, which the last
\* successful cycle wrote; an evaluation that does not fire stamps the observed
\* price as the new currentPrice, and its save leaves the status as it was.
\* With baseline 100 and triggerValue 5, a price of 104 does not fire.
PercentageExact ==
    /\ \A cp \in 1..(MaxPrice + 1), p \in SamplePrices, v \in SamplePercents :
           shouldTriggerAlert(Sample("percentage_change", v, cp), p)
               <=> PercentAtLeast(cp, p, v)
    /\ ~shouldTriggerAlert(Sample("percentage_change", 5, 100), 104)
    /\ shouldTriggerAlert(Sample("percentage_change", 5, 100), 105)

C13_PercentageRebased ==
    [][/\ PercentageExact
       /\ \A l \in Loops :
              /\ FindOk(l) =>
                     /\ \A i \in DOMAIN loops'[l].rest :
                            loops'[l].rest[i] = store[loops'[l].rest[i].id]
                     /\ loops'[l].pc = "fetch" =>
                            loops'[l].doc = store[loops'[l].doc.id]
              /\ \A p \in Prices :
                     (FetchOk(l, p) /\ loops[l].doc.triggerType = "percentage_change") =>
                         LET cp == loops[l].doc.currentPrice
                             v == loops[l].doc.triggerValue IN
                         IF PercentAtLeast(cp, p, v)
                         THEN /\ loops'[l].pc = "saveTrigger"
                              /\ loops'[l].doc.currentPrice = cp
                         ELSE /\ loops'[l].pc = "savePrice"
                              /\ loops'[l].doc.currentPrice = p
                              /\ loops'[l].doc.status = "active"
              /\ (SavePriceOk(l) /\ loops[l].wrote = {}) =>
                     /\ store'[loops[l].doc.id].currentPrice = loops[l].price
                     /\ store'[loops[l].doc.id].status = store[loops[l].doc.id].status]_vars

\* a percentage_change alert created with currentPrice 2 did not fire on 1 (50
\* percent), was stored with currentPrice 1, and in a later cycle fires on 2
\* (100 percent of the new baseline)
C13_Witness ==
    \E l \in Loops :
        /\ Fired(l)
        /\ loops[l].doc.triggerType = "percentage_change"
        /\ loops[l].doc.currentPrice = 1
        /\ loops[l].price = 2
        /\ store[loops[l].doc.id].currentPrice = 1
        /\ store[loops[l].doc.id].status = "active"
        /\ ~calls.stopped

\* C14: shouldTriggerAlert is false for volume_spike and for any unknown
\* triggerType, on every answer; no loop fires such an alert and its stored
\* status stays active.
UnknownNeverFires ==
    \A t \in {"volume_spike", "unknown", ""}, v \in SamplePrices,
      p \in SamplePrices \cup Answers :
        ~shouldTriggerAlert(Sample(t, v, 1), p)

C14_VolumeSpikeNeverFires ==
    /\ UnknownNeverFires
    /\ \A l \in Loops :
           (loops[l].pc \in {"saveTrigger", "findUser", "email"}) =>
               loops[l].doc.triggerType # "volume_spike"
    /\ \A a \in AlertIds :
           store[a].triggerType = "volume_spike" =>
               store[a].status = "active" /\ stamped[a] = 0

\* a volume_spike alert was checked on a price above its triggerValue, its
\* currentPrice was written and it is still active
C14_Witness ==
    \E a \in AlertIds :
        /\ store[a].triggerType = "volume_spike"
        /\ store[a].currentPrice > store[a].triggerValue
        /\ store[a].status = "active"

\* C15: no two upstream requests for the same (assetType, symbol) are sent
\* within one TTL window of each other.
C15_OneUpstreamCallPerWindow ==
    \A l \in Loops, m \in Loops :
        (l # m /\ loops[l].pc = "fetch" /\ loops[m].pc = "fetch"
             /\ CacheKey(loops[l].doc) = CacheKey(loops[m].doc)) =>
            Abs(loops[l].askedAt - loops[m].askedAt) >= CacheTtl

\* C16: every entry of the price cache holds a numeric price.
C16_CacheHoldsNumbers ==
    \A k \in CacheKeys :
        priceCache[k].timestamp # Absent => IsNumber(priceCache[k].price)

\* The loop is past getCurrentPrice for its alert: it holds what the call
\* returned as the observed price.
PastFetch(l) == loops[l].pc \in {"saveTrigger", "findUser", "email", "savePrice"}

\* C17: an answer without a numeric price is never returned by getCurrentPrice
\* as the observed price, so it is never evaluated by the trigger predicate,
\* and never stored as an alert's currentPrice.
C17_MalformedNeverAPrice ==
    /\ \A l \in Loops : PastFetch(l) => IsNumber(loops[l].price)
    /\ \A a \in AlertIds : Exists(a) => IsNumber(store[a].currentPrice)

\* C18: getCurrentPrice never returns for a stock, forex or commodity alert
\* and caches nothing for it, and such an alert stays active.
C18_OnlyCryptoSupported ==
    /\ \A l \in Loops : PastFetch(l) => loops[l].doc.assetType = "crypto"
    /\ \A k \in CacheKeys : priceCache[k].timestamp # Absent => k[1] = "crypto"
    /\ \A a \in AlertIds :
           (Exists(a) /\ store[a].assetType # "crypto") => store[a].status = "active"

\* The loop's step ends the processing of the alert it was on.
EndsAlert(l) ==
    /\ PastFetch(l)
    /\ loops'[l] # loops[l]
    /\ ~(PastFetch(l)' /\ loops'[l].doc.id = loops[l].doc.id)

\* The step has written the observed price and the cycle's time to the alert.
WrittenBack(l) ==
    LET a == loops[l].doc.id IN
    /\ store'[a].currentPrice = loops[l].price
    /\ store'[a].lastChecked = loops[l].doc.lastChecked

\* C19 as claimed: once the price was fetched, the processing of the alert
\* ends with currentPrice and lastChecked written, whether or not the alert
\* fired and whatever happened in triggerAlert after its own save (a write that
\* the store rejects aside).
C19_AlwaysWrittenBack ==
    [][\A l \in Loops :
          (EndsAlert(l) /\ ~SaveTriggerFail(l) /\ ~SavePriceFail(l)) =>
              WrittenBack(l)]_vars

\* C19 amended: once the price was fetched, the processing of the alert ends
\* either with currentPrice and lastChecked written by the final save, fired
\* or not, email failed or not, user found or not; or with a store operation
\* that rejected (triggerAlert's save, the user lookup, the final save), and
\* then with nothing written by that step.
C19_WrittenBackUnlessStoreError ==
    [][\A l \in Loops :
          EndsAlert(l) =>
              \/ SavePriceOk(l) /\ WrittenBack(l)
              \/ /\ SaveTriggerFail(l) \/ UserFail(l) \/ SavePriceFail(l)
                 /\ store' = store]_vars

\* a price_above alert fired, its email was attempted, and its currentPrice
\* was written with the price that fired it
C19_Witness ==
    \E a \in AlertIds :
        /\ Triggered(a)
        /\ store[a].triggerType = "price_above"
        /\ sends[a].email > 0
        /\ store[a].currentPrice > store[a].triggerValue
        /\ \A l \in Loops : loops[l].pc \in {"sleep", "dead"}

\* C20: a monitor cycle takes an alert out of status active only by
\* triggerAlert's save, after the predicate was true of the price it observed;
\* a final save after a predicate that was false leaves the status as it is
\* and writes the observed price and the cycle's time, which with one loop is
\* never earlier than the stored lastChecked.
C20_ActiveUntilPredicateFires ==
    [][/\ \A a \in AlertIds :
              (store[a].status = "active" /\ store'[a].status # "active") =>
                  \E l \in Loops :
                      /\ SaveTriggerOk(l)
                      /\ loops[l].doc.id = a
                      /\ shouldTriggerAlert(
                             [loops[l].doc EXCEPT !.status = "active"], loops[l].price)
       /\ \A l \in Loops :
              (SavePriceOk(l) /\ loops[l].wrote = {}) =>
                  LET a == loops[l].doc.id IN
                  /\ ~shouldTriggerAlert(store[a], loops[l].price) \/ calls.stopped
                  /\ store'[a].status = store[a].status
                  /\ store'[a].currentPrice = loops[l].price
                  /\ store'[a].lastChecked = loops[l].doc.lastChecked
                  /\ ~calls.stopped => store'[a].lastChecked >= store[a].lastChecked]_vars

\* a percentage_change alert did not fire in one cycle, which wrote its new
\* currentPrice, and has not fired in a later cycle, whose final save is awaited
C20_Witness ==
    \E l \in Loops :
        /\ NotFired(l)
        /\ loops[l].doc.triggerType = "percentage_change"
        /\ store[loops[l].doc.id].currentPrice # ChangeBody.currentPrice
        /\ store[loops[l].doc.id].lastChecked < loops[l].doc.lastChecked
        /\ store[loops[l].doc.id].status = "active"
        /\ ~calls.stopped

\* The timestamps passed on for the key in the window of length windowMs that
\* ends at t: later than t - windowMs, not later than t.
InWindow(passed, t) ==
    {i \in DOMAIN passed : t - windowMs < passed[i] /\ passed[i] <= t}

\* max timestamps passed on for the key are newer than now - windowMs
Limited(key) ==
    Cardinality(InWindow(limiter.passed[key], limiter.clock)) >= max

\* The same for the interval of length windowMs with both its ends: from
\* t - windowMs to t.
InInterval(passed, t) ==
    {i \in DOMAIN passed : t - windowMs <= passed[i] /\ passed[i] <= t}

\* C27 as claimed: for every key, no interval of length windowMs holds the
\* timestamps of more than max requests passed to next().
C27_IntervalNeverExceedsMax ==
    \A key \in RateKeys : \A i \in DOMAIN limiter.passed[key] :
        Cardinality(InInterval(limiter.passed[key], limiter.passed[key][i])) <= max

\* C27 amended: for every key, no window of length windowMs that is open at
\* its older end holds more than max requests passed to next(); a request of a limited key is answered 429 with
\* a Retry-After of at least one second, is not recorded and changes no key's
\* timestamps; a request of a key that is not limited is passed on.
C27_WindowNeverExceedsMax ==
    [][/\ \A key \in RateKeys : \A i \in DOMAIN limiter'.passed[key] :
              Cardinality(InWindow(limiter'.passed[key], limiter'.passed[key][i])) <= max
       /\ \A key \in RateKeys :
              rateLimit(key) =>
                  IF Limited(key)
                  THEN /\ limiter'.reply.status = 429
                       /\ limiter'.reply.retryAfter >= 1
                       /\ limiter'.passed = limiter.passed
                       /\ limiter'.hits = limiter.hits
                  ELSE /\ limiter'.reply.status = 200
                       /\ limiter'.passed[key] = Append(limiter.passed[key], limiter.clock)]_vars

\* a key was limited after max requests, with a Retry-After of 2 seconds, while
\* the other key was served; and a key has been served more than max requests
\* over time
C27_Witness ==
    /\ limiter.reply.status = 429
    /\ limiter.reply.retryAfter = 2
    /\ \E key \in RateKeys : Len(limiter.passed[key]) > max
    /\ \A key \in RateKeys : limiter.passed[key] # <<>>

\* C28: a result that comes from the keyword fallback carries a label the Trade
\* schema accepts: positive for a text with a confidence keyword, negative for
\* one with a fear or FOMO keyword, neutral otherwise.
C28_FallbackLabels ==
    (emotion.pc = "done" /\ emotion.result.source = "keyword") =>
        /\ emotion.result.detected \in TradeLabels
        /\ emotion.result.detected =
               IF "fomo" \in emotion.text THEN "negative"
               ELSE IF "confidence" \in emotion.text THEN "positive"
               ELSE IF "fear" \in emotion.text THEN "negative"
               ELSE "neutral"


\* A loop inside checkAllAlerts, past the bulk read.
InCycle(r) == r.pc \notin {"dead", "sleep", "find"}

\* s is where a loop at r stands after its next step: still on the same
\* document, on the next document the cycle read, or, with no document left, in
\* the sleep that ends the cycle.
Advances(r, s) ==
    \/ InCycle(s) /\ s.doc.id = r.doc.id /\ s.rest = r.rest
    \/ /\ r.rest # <<>>
       /\ InCycle(s) /\ s.doc.id = Head(r.rest).id /\ s.rest = Tail(r.rest)
    \/ r.rest = <<>> /\ s.pc = "sleep"

\* C21: stopMonitoring() on a stopped service changes nothing of the service;
\* on a running one it changes only the flag: a cycle in flight goes on through
\* every alert it read and ends in its sleep, whatever the flag; a loop whose
\* sleep ends with the flag down returns, and a cycle begins only from
\* startMonitoring() or from a sleep that ends with the flag up.
C21_StopAtCycleBoundary ==
    [][/\ (StopMonitoring /\ ~isRunning) =>
              UNCHANGED <<store, nextId, isRunning, loops, priceCache, now, sends, stamped>>
       /\ StopMonitoring => loops' = loops
       /\ \A l \in Loops :
            /\ (InCycle(loops[l]) /\ loops'[l] # loops[l]) =>
                   Advances(loops[l], loops'[l])
            /\ (loops[l].pc = "sleep" /\ loops'[l] # loops[l]) =>
                   loops'[l] = IF isRunning THEN Spawn ELSE DeadLoop
            /\ (loops[l].pc # "find" /\ loops'[l].pc = "find") =>
                   /\ isRunning'
                   /\ loops[l].pc \in {"sleep", "dead"}
                   /\ loops[l].pc = "dead" => ~isRunning]_vars

\* C21 witness: the flag is down and a cycle read before that is on the second
\* alert of its list.
C21_Witness ==
    /\ ~isRunning
    /\ calls.stopped
    /\ \E l \in Loops :
         /\ loops[l].pc = "savePrice"
         /\ loops[l].doc.id = MaxAlerts
         /\ loops[l].rest = <<>>
         /\ store[1].lastChecked # Absent

\* C23: a cycle that failed in the bulk read is followed by a sleep of twice
\* the interval, every other cycle by a sleep of the interval, whatever came
\* before it; a sleep never ends before its time.
C23_BackoffOnce ==
    [][\A l \in Loops :
         /\ FindFail(l) =>
                /\ loops'[l].pc = "sleep"
                /\ loops'[l].wakeAt = now + 2 * priceUpdateInterval
         /\ (loops[l].pc # "sleep" /\ loops'[l].pc = "sleep" /\ ~FindFail(l)) =>
                loops'[l].wakeAt = now + priceUpdateInterval
         /\ (loops[l].pc # "sleep" /\ loops'[l].pc = "sleep") =>
                /\ loops'[l].wakeAt >= now + priceUpdateInterval
                /\ loops'[l].wakeAt <= now + 2 * priceUpdateInterval
         /\ (loops[l].pc = "sleep" /\ loops'[l].pc # "sleep") =>
                now >= loops[l].wakeAt]_vars

\* C23 witness: a loop in the doubled sleep.
C23_Witness ==
    \E l \in Loops :
        /\ loops[l].pc = "sleep"
        /\ loops[l].wakeAt = now + 2 * priceUpdateInterval
        /\ loops[l].wakeAt <= LiveTime
        /\ isRunning

\* The documents a loop holds: the one it is on and the ones still to come.
Held(r) ==
    (IF InCycle(r) THEN {r.doc.id} ELSE {}) \cup {r.rest[i].id : i \in DOMAIN r.rest}

\* C24: the monitor deletes no alert, sets no status but triggered, writes
\* nothing but currentPrice, lastChecked, status and triggeredAt, and writes
\* only to an alert that was active when the cycle read it.
C24_MonitorWritesOnly ==
    [][/\ \A a \in AlertIds :
            /\ Exists(a) => Exists(a)'
            /\ store'[a].status # store[a].status => store'[a].status = "triggered"
            /\ store'[a].user = store[a].user
            /\ store'[a].symbol = store[a].symbol
            /\ store'[a].assetType = store[a].assetType
            /\ store'[a].triggerType = store[a].triggerType
            /\ store'[a].triggerValue = store[a].triggerValue
            /\ store'[a].channels = store[a].channels
            /\ store'[a] # store[a] =>
                   \E l \in Loops : InCycle(loops[l]) /\ loops[l].doc.id = a
       /\ \A l \in Loops :
            /\ Held(loops'[l]) \subseteq
                   IF loops[l].pc = "find"
                   THEN {a \in AlertIds : store[a].status = "active"}
                   ELSE Held(loops[l])
       ]_vars

\* C24 witness: the monitor has written all four fields of an alert.
C24_Witness ==
    \E l \in Loops :
        /\ loops[l].pc = "sleep"
        /\ Triggered(1)
        /\ store[1].lastChecked # Absent
        /\ store[1].currentPrice = MaxPrice
        /\ store[MaxAlerts].status = "active"
        /\ store[MaxAlerts].lastChecked # Absent

\* C26: a loop goes to sleep at the end of a cycle only with the flag up.
C26_StopCheckedBeforeSleep ==
    [][\A l \in Loops :
         (loops[l].pc \notin {"sleep", "dead"} /\ loops'[l].pc = "sleep") => isRunning]_vars

\* A loop past the user lookup that found nobody.
Missed(l) ==
    /\ loops[l].pc = "savePrice"
    /\ "status" \in loops[l].wrote
    /\ loops[l].usr = NoUser
    /\ loops[l].tried = NoTries
    /\ ~loops[l].mailErr

\* C29: when User.findById finds nobody, the alert stays stored as triggered,
\* no channel is tried, and the cycle goes on to the final save of that alert
\* with the price and the time; the monitor never takes an alert out of
\* triggered, a cycle never reads a triggered alert, and a send is made only by
\* a loop that holds the alert.
C29_MissingUserSilent ==
    [][/\ \A l \in Loops :
            UserMissing(l) =>
                LET a == loops[l].doc.id IN
                /\ Triggered(a)'
                /\ sends' = sends
                /\ loops'[l].pc = "savePrice"
                /\ loops'[l].doc.id = a
                /\ loops'[l].rest = loops[l].rest
                /\ ~loops'[l].caught
                /\ loops'[l].tried = NoTries
                /\ loops'[l].doc.currentPrice = loops[l].price
                /\ loops'[l].doc.lastChecked = now
       /\ \A a \in AlertIds :
            /\ store[a].status = "triggered" => store'[a].status = "triggered"
            /\ sends'[a] # sends[a] =>
                   \E l \in Loops : loops[l].pc \in {"findUser", "email"} /\ loops[l].doc.id = a
       /\ \A l \in Loops :
            loops[l].pc = "find" =>
                \A a \in Held(loops'[l]) : store[a].status # "triggered"]_vars

\* C29 witness: the owner was not found, nothing was sent for the alert, and it
\* is stored as triggered.
C29_Witness ==
    \E l \in Loops :
        /\ Missed(l)
        /\ Triggered(loops[l].doc.id)
        /\ sends[loops[l].doc.id] = NoTries
        /\ ~calls.stopped


\* C22: with stopMonitoring() never called, no loop returns; every cycle ends
\* in a sleep, after a failed bulk read too, and every sleep that ends within
\* the model's time is followed by the next cycle.
C22_LoopNeverExits ==
    /\ [][\A l \in Loops : loops[l].pc # "dead" => loops'[l].pc # "dead"]_vars
    /\ \A l \in Loops : (loops[l].pc = "find") ~> (loops[l].pc = "sleep")
    /\ \A l \in Loops :
         (loops[l].pc = "sleep" /\ loops[l].wakeAt <= LiveTime) ~> (loops[l].pc = "find")

\* C22 witness: the one loop wrote an alert in a cycle, slept, and is in the
\* bulk read of the next cycle.
C22_Witness ==
    \E l \in Loops :
        /\ isRunning
        /\ loops[l].pc = "find"
        /\ now = LiveTime
        /\ store[1].lastChecked = LiveTime - priceUpdateInterval

\* the zero baseline: every number but 0 fires, whatever the trigger value;
\* 0, null and undefined do not
ZeroBaselineExact ==
    \A p \in Answers \cup {0}, v \in {0, 60, 100 * MaxPrice} :
        PercentageFires(0, p, v) <=> (IsNumber(p) /\ p # 0)

\* a request without currentPrice, or with null or 0, is stored with 0
AlertDataZero ==
    /\ alertData(ZeroBody).currentPrice = 0
    /\ alertData([ZeroBody EXCEPT !.currentPrice = Null]).currentPrice = 0
    /\ alertData([ZeroBody EXCEPT !.currentPrice = 0]).currentPrice = 0
    /\ alertData(ChangeBody).currentPrice = ChangeBody.currentPrice

\* C30: createAlert stores 0 for a missing currentPrice; with a stored 0 the
\* percentage predicate is true exactly for the non-zero numbers; and a loop
\* that fetches a price for such an alert goes into triggerAlert exactly when
\* the price is a non-zero number.
C30_ZeroBaselineFires ==
    [][/\ AlertDataZero
       /\ ZeroBaselineExact
       /\ \A l \in Loops, p \in Answers :
            (/\ FetchOk(l, p)
             /\ loops[l].doc.triggerType = "percentage_change"
             /\ loops[l].doc.currentPrice = 0) =>
                /\ loops'[l].doc.id = loops[l].doc.id
                /\ IF IsNumber(p) /\ p # 0
                   THEN /\ loops'[l].pc = "saveTrigger"
                        /\ loops'[l].doc.status = "triggered"
                   ELSE /\ loops'[l].pc = "savePrice"
                        /\ loops'[l].doc.status = "active"]_vars

\* C30 witness: the alert created without a price fires in the very first
\* cycle, on a price that is 50 percent away from a baseline of 2 and would not
\* reach its 60 percent.
C30_Witness ==
    \E l \in Loops :
        /\ loops[l].pc = "saveTrigger"
        /\ loops[l].doc.id = 1
        /\ loops[l].doc.triggerType = "percentage_change"
        /\ loops[l].doc.currentPrice = 0
        /\ loops[l].price = 1
        /\ store[1].currentPrice = 0
        /\ now = 1


\* C25: an alert keeps its owner, its symbol and its assetType for as long as
\* it exists.
C25_OwnerSymbolImmutable ==
    [][\A a \in AlertIds :
         (Exists(a) /\ Exists(a)') =>
             /\ store'[a].user = store[a].user
             /\ store'[a].symbol = store[a].symbol
             /\ store'[a].assetType = store[a].assetType]_vars

====
